---- MODULE Spec2Model ----
(***************************************************************************)
(* Model of deno-proxy/src/main.ts: the ToolifyParser character state      *)
(* machine, the invoke-block extractor parseInvokeXml, and the streaming   *)
(* loop of handleMessages that feeds it.                                   *)
(*                                                                         *)
(* A JavaScript string is modelled as a sequence of one-character strings. *)
(* Index arguments of the string helpers are 0-based, as in JavaScript.    *)
(***************************************************************************)
EXTENDS Integers, Sequences, FiniteSets, TLC

\* ------------------------------------------------------------------ strings

MinOf(S) == CHOOSE x \in S : \A y \in S : x <= y

MaxOf(S) == CHOOSE x \in S : \A y \in S : x >= y

\* String.prototype.slice(a, b) with 0 <= a, b non-negative indices.
Slice(s, a, b) ==
  LET lo == IF a > Len(s) THEN Len(s) ELSE a
      hi == IF b > Len(s) THEN Len(s) ELSE b
  IN IF hi <= lo THEN <<>> ELSE SubSeq(s, lo + 1, hi)

\* String.prototype.slice(0, -n), n > 0: drop the last n characters.
DropLast(s, n) == IF Len(s) <= n THEN <<>> ELSE SubSeq(s, 1, Len(s) - n)

\* s has t at 0-based position i.
HasAt(s, t, i) ==
  /\ i >= 0
  /\ i + Len(t) <= Len(s)
  /\ \A k \in 1..Len(t) : s[i + k] = t[k]

EndsWith(s, t) == HasAt(s, t, Len(s) - Len(t))

StartsWith(s, t) == HasAt(s, t, 0)

\* String.prototype.indexOf(t, from): the first position >= from, or -1.
IndexOf(s, t, from) ==
  LET P == {i \in from..(Len(s) - Len(t)) : HasAt(s, t, i)}
  IN IF P = {} THEN -1 ELSE MinOf(P)

Includes(s, t) == IndexOf(s, t, 0) # -1

UpperLetters ==
  <<"A","B","C","D","E","F","G","H","I","J","K","L","M",
    "N","O","P","Q","R","S","T","U","V","W","X","Y","Z">>

LowerLetters ==
  <<"a","b","c","d","e","f","g","h","i","j","k","l","m",
    "n","o","p","q","r","s","t","u","v","w","x","y","z">>

UpperSet == {UpperLetters[i] : i \in 1..26}

LowerOf == [c \in UpperSet |-> LowerLetters[CHOOSE i \in 1..26 : UpperLetters[i] = c]]

LowerChar(c) == IF c \in UpperSet THEN LowerOf[c] ELSE c

\* String.prototype.toLowerCase (ASCII letters; others are left alone).
ToLowerCase(s) == [i \in 1..Len(s) |-> LowerChar(s[i])]

\* White space of trim(), trimStart() and the regular expressions' \s.
IsWs(c) == c \in {" ", "\n", "\t", "\r"}

\* Number of leading white-space characters.
LeadWs(s) ==
  IF \A i \in 1..Len(s) : IsWs(s[i]) THEN Len(s)
  ELSE MinOf({i \in 1..Len(s) : ~IsWs(s[i])}) - 1

TrailWs(s) ==
  IF \A i \in 1..Len(s) : IsWs(s[i]) THEN Len(s)
  ELSE Len(s) - MaxOf({i \in 1..Len(s) : ~IsWs(s[i])})

TrimStart(s) == Slice(s, LeadWs(s), Len(s))

Trim(s) ==
  IF LeadWs(s) = Len(s) THEN <<>> ELSE SubSeq(s, LeadWs(s) + 1, Len(s) - TrailWs(s))

\* ---------------------------------------------------------------- constants

THINKING_START_TAG == <<"<","t","h","i","n","k","i","n","g",">">>

THINKING_END_TAG == <<"<","/","t","h","i","n","k","i","n","g",">">>

InvokeOpen == <<"<","i","n","v","o","k","e">>

InvokeClose == <<"<","/","i","n","v","o","k","e",">">>

NameAttr == <<"n","a","m","e","=","\"">>

ParamOpen == <<"<","p","a","r","a","m","e","t","e","r">>

ParamClose == <<"<","/","p","a","r","a","m","e","t","e","r",">">>

\* The plain buffer is flushed as text when it reaches this length.
FlushLen == 256

\* -------------------------------------------------------------- JSON.parse
\* JSON.parse of a trimmed parameter body. Exact for text over Alphabet
\* (defined below), which holds no backslash, bracket, brace, sign or dot:
\* the values that parse are true, false, null, unsigned numbers without a
\* fraction and strings without escapes.

Digits == <<"0","1","2","3","4","5","6","7","8","9">>

IsDigit(c) == \E i \in 1..10 : Digits[i] = c

DigitVal(c) == (CHOOSE i \in 1..10 : Digits[i] = c) - 1

RECURSIVE NatVal(_)
NatVal(s) == IF s = <<>> THEN 0 ELSE 10 * NatVal(DropLast(s, 1)) + DigitVal(s[Len(s)])

RECURSIVE Pow10(_)
Pow10(n) == IF n = 0 THEN 1 ELSE 10 * Pow10(n - 1)

AllDigits(s) == s # <<>> /\ \A i \in 1..Len(s) : IsDigit(s[i])

\* JSON's int: 0, or a digit run that does not start with 0.
IsJsonInt(s) == AllDigits(s) /\ (Len(s) = 1 \/ s[1] # "0")

ExpAt(s) == {i \in 1..Len(s) : s[i] \in {"e", "E"}}

IsJsonNumber(s) ==
  \/ IsJsonInt(s)
  \/ /\ Cardinality(ExpAt(s)) = 1
     /\ LET i == CHOOSE k \in ExpAt(s) : TRUE
        IN IsJsonInt(SubSeq(s, 1, i - 1)) /\ AllDigits(SubSeq(s, i + 1, Len(s)))

JsonNumberVal(s) ==
  IF IsJsonInt(s) THEN NatVal(s)
  ELSE LET i == CHOOSE k \in ExpAt(s) : TRUE
       IN NatVal(SubSeq(s, 1, i - 1)) * Pow10(NatVal(SubSeq(s, i + 1, Len(s))))

IsJsonString(s) ==
  /\ Len(s) >= 2
  /\ s[1] = "\"" /\ s[Len(s)] = "\""
  /\ \A i \in 2..(Len(s) - 1) : s[i] \notin {"\"", "\n", "\t", "\r"}

\* [ok |-> FALSE] models the SyntaxError JSON.parse throws.
JsonParse(s) ==
  IF s = <<"t","r","u","e">> THEN [ok |-> TRUE, value |-> [t |-> "boolean", v |-> TRUE]]
  ELSE IF s = <<"f","a","l","s","e">> THEN [ok |-> TRUE, value |-> [t |-> "boolean", v |-> FALSE]]
  ELSE IF s = <<"n","u","l","l">> THEN [ok |-> TRUE, value |-> [t |-> "null"]]
  ELSE IF IsJsonNumber(s) THEN [ok |-> TRUE, value |-> [t |-> "number", v |-> JsonNumberVal(s)]]
  ELSE IF IsJsonString(s)
       THEN [ok |-> TRUE, value |-> [t |-> "string", v |-> SubSeq(s, 2, Len(s) - 1)]]
  ELSE [ok |-> FALSE]

\* ---------------------------------------------------------- parseInvokeXml

\* Position of the first ch at or after from, or Len(s) when there is none.
NextChar(s, ch, from) ==
  LET i == IndexOf(s, <<ch>>, from) IN IF i = -1 THEN Len(s) ELSE i

\* The name="([^"]+)" attribute starting at j closes with a quote, holds at
\* least one character, and a '>' follows it.
AttrOk(s, low, j) ==
  /\ HasAt(low, NameAttr, j)
  /\ LET q == NextChar(s, "\"", j + 6)
     IN q < Len(s) /\ q > j + 6 /\ NextChar(s, ">", q + 1) < Len(s)

\* Start positions j of name=" that [^>]* can reach from the end of a tag
\* keyword at position k.
AttrStarts(s, low, k) == {j \in k..NextChar(s, ">", k) : AttrOk(s, low, j)}

\* /<invoke[^>]*name="([^"]+)"[^>]*>/i : the leftmost <invoke that has a
\* matching attribute; the greedy [^>]* gives its last one.
InvokeMatches(s, low) ==
  {i \in 0..(Len(s) - 7) : HasAt(low, InvokeOpen, i) /\ AttrStarts(s, low, i + 7) # {}}

\* One match of the parameter regular expression at <parameter position i
\* with attribute position j: key, raw body and the end of the match.
ParamAt(s, low, j) ==
  LET q == NextChar(s, "\"", j + 6)
      g == NextChar(s, ">", q + 1)
      e == IndexOf(low, ParamClose, g + 1)
  IN [key |-> Slice(s, j + 6, q), raw |-> Slice(s, g + 1, e), next |-> e + 12, ok |-> e # -1]

ParamStarts(s, low, from) ==
  {i \in from..(Len(s) - 10) :
     /\ HasAt(low, ParamOpen, i)
     /\ \E j \in AttrStarts(s, low, i + 10) : ParamAt(s, low, j).ok}

\* Mutant: the body is stored as trimmed text, JSON.parse is not tried.
ParamValue_NoJson(rawValue) == [t |-> "string", v |-> Trim(rawValue)]

\* The value stored for one parameter (main.ts 325-336).
ParamValue(rawValue) ==
  LET trimmed == Trim(rawValue)
  IN IF trimmed # <<>>
     THEN IF JsonParse(trimmed).ok THEN JsonParse(trimmed).value
          ELSE [t |-> "string", v |-> trimmed]
     ELSE [t |-> "string", v |-> <<>>]

\* params[key] = value : the last write of a key wins.
SetParam(params, key, value) ==
  [k \in (DOMAIN params) \cup {key} |-> IF k = key THEN value ELSE params[k]]

\* paramRegex.exec(xml) from lastIndex: the leftmost match with the last
\* matching attribute of its tag, or ok = FALSE when nothing matches.
ParamExec(s, low, from) ==
  LET starts == ParamStarts(s, low, from)
  IN IF starts = {} THEN [ok |-> FALSE]
     ELSE ParamAt(s, low,
                  MaxOf({x \in AttrStarts(s, low, MinOf(starts) + 10) : ParamAt(s, low, x).ok}))

\* The while loop over paramRegex.exec(xml); m is the match of this round.
RECURSIVE ParamLoop(_, _, _, _)
ParamLoop(s, low, params, m) ==
  IF ~m.ok THEN params
  ELSE ParamLoop(s, low, SetParam(params, m.key, ParamValue(m.raw)),
                 ParamExec(s, low, m.next))

EmptyParams == [k \in {} |-> 0]

\* [ok |-> FALSE] models the null result.
parseInvokeXml(xml) ==
  LET low == ToLowerCase(xml)
      ms  == InvokeMatches(xml, low)
  IN IF ms = {} THEN [ok |-> FALSE]
     ELSE LET i == MinOf(ms)
              j == MaxOf(AttrStarts(xml, low, i + 7))
              q == NextChar(xml, "\"", j + 6)
          IN [ok |-> TRUE,
              name |-> Slice(xml, j + 6, q),
              arguments |-> ParamLoop(xml, low, EmptyParams, ParamExec(xml, low, 0))]

\* ------------------------------------------------------------ ToolifyParser
\* A parser object is a record of the class's fields. triggerSignal = <<>>
\* models both undefined and the empty string (both are falsy).

NewParser(triggerSignal, thinkingEnabled) ==
  [triggerSignal |-> triggerSignal, thinkingEnabled |-> thinkingEnabled,
   buffer |-> <<>>, captureBuffer |-> <<>>, capturing |-> FALSE,
   thinkingMode |-> FALSE, thinkingBuffer |-> <<>>, events |-> <<>>]

TextEvent(content) == [type |-> "text", content |-> content]

ThinkingEvent(content) == [type |-> "thinking", content |-> content]

ToolCallEvent(call) == [type |-> "tool_call", call |-> call]

EndEvent == [type |-> "end"]

\* this.events.push(e)
Push(p, e) == [p EXCEPT !.events = Append(@, e)]

\* if (content) this.events.push(e)
PushIf(p, content, e) == IF content # <<>> THEN Push(p, e) ELSE p

\* thinkingContent.replace(/^\s*>\s*/, "")
StripLeadingArtifact(s) ==
  LET a == LeadWs(s)
  IN IF a < Len(s) /\ s[a + 1] = ">"
     THEN LET rest == Slice(s, a + 1, Len(s)) IN Slice(rest, LeadWs(rest), Len(rest))
     ELSE s

\* The scan that drops the invoke blocks following the first one
\* (main.ts 511-535); the result is filteredContent.
RECURSIVE FilterRemaining(_)
FilterRemaining(remaining) ==
  LET trimmed == TrimStart(remaining)
      nextEndIdx == IndexOf(trimmed, InvokeClose, 0)
  IN IF trimmed = <<>> THEN <<>>
     ELSE IF StartsWith(ToLowerCase(trimmed), InvokeOpen) /\ nextEndIdx # -1
          THEN FilterRemaining(Slice(trimmed, nextEndIdx + 9, Len(trimmed)))
     ELSE remaining

\* this.captureBuffer = ""; this.capturing = false
CaptureDone(p) == [p EXCEPT !.captureBuffer = <<>>, !.capturing = FALSE]

\* main.ts 476-553: a complete block was cut out of the capture buffer cb;
\* before is the text in front of it, parsed the extractor's result.
EmitInvoke(p, cb, before, parsed, filteredContent) ==
  LET p1 == PushIf(p, before, TextEvent(before))
  IN IF parsed.ok
     THEN LET p2 == Push(p1, ToolCallEvent([name |-> parsed.name,
                                            arguments |-> parsed.arguments]))
          IN CaptureDone(IF Trim(filteredContent) # <<>>
                         THEN Push(p2, TextEvent(filteredContent)) ELSE p2)
     ELSE CaptureDone(Push(p1, TextEvent(cb)))

tryEmitInvokes(p, force) ==
  LET cb == p.captureBuffer
      startIdx == IndexOf(ToLowerCase(cb), InvokeOpen, 0)
      endIdx == IndexOf(cb, InvokeClose, startIdx)
      endPos == endIdx + 9
      afterInvoke == Slice(cb, endPos, Len(cb))
      afterTrimmed == TrimStart(afterInvoke)
  IN IF startIdx = -1
     THEN IF ~force THEN p
          ELSE IF cb # <<>> THEN CaptureDone(Push(p, TextEvent(cb)))
          ELSE [p EXCEPT !.capturing = FALSE]
     ELSE IF endIdx = -1 THEN p
     ELSE IF /\ afterTrimmed # <<>>
             /\ ~StartsWith(ToLowerCase(afterTrimmed), InvokeOpen)
             /\ ~force
          THEN CaptureDone(Push(p, TextEvent(cb)))
     ELSE EmitInvoke(p, cb, Slice(cb, 0, startIdx),
                     parseInvokeXml(Slice(cb, startIdx, endPos)),
                     FilterRemaining(afterInvoke))

\* Mutant: only the first character of the argument is buffered (char[0]).
PassThroughChar_FirstCharOnly(p, char) ==
  LET b == p.buffer \o Slice(char, 0, 1)
  IN IF Len(b) >= FlushLen
     THEN [Push(p, TextEvent(b)) EXCEPT !.buffer = <<>>]
     ELSE [p EXCEPT !.buffer = b]

\* main.ts 565-570: thinking is not parsed, everything is text.
PassThroughChar(p, char) ==
  LET b == p.buffer \o char
  IN IF Len(b) >= FlushLen
     THEN [Push(p, TextEvent(b)) EXCEPT !.buffer = <<>>]
     ELSE [p EXCEPT !.buffer = b]

\* main.ts 572-612: the two modes Plain and Thinking.
ThinkingAwareChar(p, char) ==
  IF p.thinkingMode
  THEN LET tb == p.thinkingBuffer \o char
           thinkingContent == StripLeadingArtifact(DropLast(tb, Len(THINKING_END_TAG)))
       IN IF EndsWith(tb, THINKING_END_TAG)
          THEN [PushIf(p, thinkingContent, ThinkingEvent(thinkingContent))
                  EXCEPT !.thinkingBuffer = <<>>, !.thinkingMode = FALSE]
          ELSE [p EXCEPT !.thinkingBuffer = tb]
  ELSE LET b == p.buffer \o char
           textPortion == DropLast(b, Len(THINKING_START_TAG))
       IN IF EndsWith(b, THINKING_START_TAG)
          THEN [PushIf(p, textPortion, TextEvent(textPortion))
                  EXCEPT !.buffer = <<>>, !.thinkingMode = TRUE, !.thinkingBuffer = <<>>]
          ELSE IF Len(b) >= FlushLen
          THEN [Push(p, TextEvent(b)) EXCEPT !.buffer = <<>>]
          ELSE [p EXCEPT !.buffer = b]

\* Mutant: the thinkingEnabled test of line 564 is dropped.
handleCharWithoutTrigger_IgnoresFlag(p, char) == ThinkingAwareChar(p, char)

handleCharWithoutTrigger(p, char) ==
  IF ~p.thinkingEnabled THEN PassThroughChar(p, char) ELSE ThinkingAwareChar(p, char)

\* Mutant: the plain buffer is not cleared on entering Thinking (line 629
\* missing).
checkThinkingMode_KeepsBuffer(p, char) ==
  IF ~p.thinkingEnabled THEN p
  ELSE IF ~p.thinkingMode
  THEN LET textPortion == DropLast(p.buffer, Len(THINKING_START_TAG) - 1)
       IN IF EndsWith(p.buffer \o char, THINKING_START_TAG)
          THEN [PushIf(p, textPortion, TextEvent(textPortion))
                  EXCEPT !.thinkingMode = TRUE, !.thinkingBuffer = <<>>]
          ELSE p
  ELSE LET thinkingContent ==
             StripLeadingArtifact(DropLast(p.thinkingBuffer, Len(THINKING_END_TAG)))
       IN IF EndsWith(p.thinkingBuffer, THINKING_END_TAG)
          THEN [PushIf(p, thinkingContent, ThinkingEvent(thinkingContent))
                  EXCEPT !.thinkingBuffer = <<>>, !.thinkingMode = FALSE]
          ELSE p

\* Mutant: the start tag is also looked for at the end of the captured text.
checkThinkingMode_SeesCapture(p, char) ==
  IF ~p.thinkingEnabled THEN p
  ELSE IF ~p.thinkingMode
  THEN LET tempBuffer == (IF p.capturing THEN p.captureBuffer ELSE p.buffer) \o char
           textPortion == DropLast(p.buffer, Len(THINKING_START_TAG) - 1)
       IN IF EndsWith(tempBuffer, THINKING_START_TAG)
          THEN [PushIf(p, textPortion, TextEvent(textPortion))
                  EXCEPT !.buffer = <<>>, !.thinkingMode = TRUE, !.thinkingBuffer = <<>>]
          ELSE p
  ELSE LET thinkingContent ==
             StripLeadingArtifact(DropLast(p.thinkingBuffer, Len(THINKING_END_TAG)))
       IN IF EndsWith(p.thinkingBuffer, THINKING_END_TAG)
          THEN [PushIf(p, thinkingContent, ThinkingEvent(thinkingContent))
                  EXCEPT !.thinkingBuffer = <<>>, !.thinkingMode = FALSE]
          ELSE p

checkThinkingMode(p, char) ==
  IF ~p.thinkingEnabled THEN p
  ELSE IF ~p.thinkingMode
  THEN LET tempBuffer == p.buffer \o char
           textPortion == DropLast(p.buffer, Len(THINKING_START_TAG) - 1)
       IN IF EndsWith(tempBuffer, THINKING_START_TAG)
          THEN [PushIf(p, textPortion, TextEvent(textPortion))
                  EXCEPT !.buffer = <<>>, !.thinkingMode = TRUE, !.thinkingBuffer = <<>>]
          ELSE p
  ELSE LET thinkingContent ==
             StripLeadingArtifact(DropLast(p.thinkingBuffer, Len(THINKING_END_TAG)))
       IN IF EndsWith(p.thinkingBuffer, THINKING_END_TAG)
          THEN [PushIf(p, thinkingContent, ThinkingEvent(thinkingContent))
                  EXCEPT !.thinkingBuffer = <<>>, !.thinkingMode = FALSE]
          ELSE p

\* char is the argument as passed: one character in every call the
\* repository makes, any string in general.
feedChar(p, char) ==
  IF p.triggerSignal = <<>> THEN handleCharWithoutTrigger(p, char)
  ELSE LET p1 == IF p.thinkingEnabled THEN checkThinkingMode(p, char) ELSE p
           b == p1.buffer \o char
           textPortion == DropLast(b, Len(p1.triggerSignal))
       IN IF p1.thinkingEnabled /\ p1.thinkingMode
          THEN [p1 EXCEPT !.thinkingBuffer = @ \o char]
          ELSE IF p1.capturing
          THEN tryEmitInvokes([p1 EXCEPT !.captureBuffer = @ \o char], FALSE)
          ELSE IF EndsWith(b, p1.triggerSignal)
          THEN [PushIf(p1, textPortion, TextEvent(textPortion))
                  EXCEPT !.buffer = <<>>, !.capturing = TRUE, !.captureBuffer = <<>>]
          ELSE [p1 EXCEPT !.buffer = b]

\* Mutant: the fields are not reset (lines 434-438 missing).
finish_NoReset(p) ==
  LET p1 == PushIf(p, p.buffer, TextEvent(p.buffer))
      thinkingContent == StripLeadingArtifact(p.thinkingBuffer)
      p2 == IF p.thinkingEnabled /\ p.thinkingMode /\ p.thinkingBuffer # <<>>
            THEN Push(p1, ThinkingEvent(thinkingContent)) ELSE p1
  IN Push(tryEmitInvokes(p2, TRUE), EndEvent)

\* Mutant: the plain buffer is not flushed (lines 422-424 missing).
finish_DropsBuffer(p) ==
  LET thinkingContent == StripLeadingArtifact(p.thinkingBuffer)
      p2 == IF p.thinkingEnabled /\ p.thinkingMode /\ p.thinkingBuffer # <<>>
            THEN Push(p, ThinkingEvent(thinkingContent)) ELSE p
      p3 == tryEmitInvokes(p2, TRUE)
  IN [Push(p3, EndEvent) EXCEPT !.buffer = <<>>, !.captureBuffer = <<>>,
        !.capturing = FALSE, !.thinkingBuffer = <<>>, !.thinkingMode = FALSE]

finish(p) ==
  LET p1 == PushIf(p, p.buffer, TextEvent(p.buffer))
      thinkingContent == StripLeadingArtifact(p.thinkingBuffer)
      p2 == IF p.thinkingEnabled /\ p.thinkingMode /\ p.thinkingBuffer # <<>>
            THEN Push(p1, ThinkingEvent(thinkingContent)) ELSE p1
      p3 == tryEmitInvokes(p2, TRUE)
  IN [Push(p3, EndEvent) EXCEPT !.buffer = <<>>, !.captureBuffer = <<>>,
        !.capturing = FALSE, !.thinkingBuffer = <<>>, !.thinkingMode = FALSE]

\* Mutant: slice() in place of splice(): the queue is copied, not emptied.
consumeEvents_KeepsQueue(p) == [parser |-> p, pending |-> p.events]

\* The returned array is pending; the parser is left with an empty queue.
consumeEvents(p) == [parser |-> [p EXCEPT !.events = <<>>], pending |-> p.events]

\* ------------------------------------------------------------------ inputs

\* Largest length of the free strings over SmallChars.
MaxSmall == 2

\* How far the long fillers range on each side of the flush threshold.
MaxOver == 1

SmallChars == {"a", " ", ">"}

Strings(n) == UNION {[1..k -> SmallChars] : k \in 0..n}

Fill(n) == [i \in 1..n |-> "a"]

\* The trigger signal of a request with tools (randomTriggerSignal()),
\* and <<>> for a request without.
TRIGGER == <<"<","<","C","A","L","L",">",">">>

TriggerSignals == {<<>>, TRIGGER}

OpenF == InvokeOpen \o <<" ">> \o NameAttr \o <<"f", "\"", ">">>

ParamX(body) == ParamOpen \o <<" ">> \o NameAttr \o <<"x", "\"", ">">> \o body \o ParamClose

Block(body) == OpenF \o ParamX(body) \o InvokeClose

BlockNoName == InvokeOpen \o <<">">> \o ParamX(<<"1">>) \o InvokeClose

Quoted1 == <<"\"", "1", "\"">>

Bodies == {Quoted1, <<"1">>, <<" ", "a", " ">>, <<>>}

Hi == <<"H", "i">>

\* A <thinking> B </thinking> C, closed or not, with short A.
ThinkInputs ==
  {A \o THINKING_START_TAG \o B \o E \o C :
     A \in {<<>>, <<"a">>}, B \in Strings(MaxSmall) \cup {TRIGGER},
     E \in {<<>>, THINKING_END_TAG},
     C \in {<<>>, <<"a">>, TRIGGER \o Block(Quoted1)}}

FillLens == (FlushLen - 10 - MaxOver)..(FlushLen + MaxOver)

\* The same with an A that brings the plain buffer to the flush threshold.
LongThinkInputs ==
  {Fill(n) \o THINKING_START_TAG \o <<" ", "a", " ">> \o THINKING_END_TAG \o <<"a">> :
     n \in FillLens}

\* Text without a complete tag or trigger signal.
PlainInputs ==
  Strings(MaxSmall)
    \cup {Fill(n) \o Y : n \in FillLens, Y \in {<<>>, DropLast(THINKING_START_TAG, 1)}}
    \cup {Fill(2 * FlushLen + 1)}
    \cup {X \o Y : X \in {DropLast(THINKING_END_TAG, 1), DropLast(TRIGGER, 1), Block(Quoted1)},
                   Y \in Strings(1)}

\* P, the trigger signal, white space or text, an invoke block, a rest.
ToolInputs ==
  {P \o TRIGGER \o W \o B \o R :
     P \in {<<>>, Hi},
     W \in {<<>>, <<"\n">>, <<"a">>},
     B \in {Block(b) : b \in Bodies} \cup {BlockNoName, OpenF, <<>>},
     R \in {<<>>, <<"\n">>, <<"a">>, Block(<<"1">>), Block(<<"1">>) \o <<"a">>,
            THINKING_START_TAG \o <<"a">> \o THINKING_END_TAG}}

\* A thinking block that holds the trigger signal, then a trigger signal
\* followed by a start tag.
NestedInput ==
  THINKING_START_TAG \o TRIGGER \o THINKING_END_TAG \o TRIGGER \o THINKING_START_TAG

Inputs == ThinkInputs \cup LongThinkInputs \cup PlainInputs \cup ToolInputs \cup {NestedInput}

\* Every character the inputs are made of.
Alphabet == UNION {{s[i] : i \in 1..Len(s)} : s \in Inputs}

\* ------------------------------------------------------------------- state

VARIABLES
  parser,     \* the ToolifyParser object under test
  input,      \* the text the caller feeds, character by character
  pos,        \* how many characters of input have been fed
  nFinish,    \* calls of finish() so far
  returned,   \* what the last consumeEvents() returned
  out,        \* everything consumeEvents() has returned, in order
  lastOp,     \* the last call made: "new", "feedChar", "finish", "consumeEvents"
  bulk,       \* a second ToolifyParser, fed the whole input in one feedChar call
  bulkOp,     \* the last call made on bulk
  bulkOut,    \* what consumeEvents() returned for bulk
  upstream,       \* the whole text the upstream body delivers
  nRead,          \* how many characters of upstream reader.read() has returned
  readerDone,     \* reader.read() returned done
  sseBuffer,      \* the text read and not yet cut into frames
  upstreamClosed, \* the [DONE] payload was seen
  pc,             \* where handleMessages stands: "acquire", "call", "status",
                  \* "resp500", "resp502"; in start(): "init", "reader", "read",
                  \* "frames", "feed", "finish", "closed" (writer closed),
                  \* "error" (controller.error, closed), "rejected" (start threw)
  deltaText,      \* the characters of the current frame still to feed
  fed,            \* every character passed to parser.feedChar, in order
  nThrown,        \* calls of handleEvents that threw
  lost,           \* the events of the calls of handleEvents that threw
  nAcquire,       \* calls of rateLimiter.acquire() that returned
  nUpstream,      \* calls of callUpstream
  upstreamOk,     \* upstreamRes.ok of the response callUpstream returned
  nInit,          \* calls of claudeStream.init()
  nHandle,        \* calls of claudeStream.handleEvents
  nClose,         \* calls of writer.close()
  nError          \* calls of controller.error

callerVars == <<parser, input, pos, nFinish, returned, out, lastOp>>

bulkVars == <<bulk, bulkOp, bulkOut>>

headVars == <<nAcquire, nUpstream, upstreamOk, nInit>>

exitVars == <<nClose, nError>>

streamVars ==
  <<upstream, nRead, readerDone, sseBuffer, upstreamClosed, pc, deltaText, fed, nThrown, lost,
    headVars, nHandle, exitVars>>

vars == <<callerVars, bulkVars, streamVars>>

\* The second parser is not used.
NoBulk == bulk = NewParser(<<>>, FALSE) /\ bulkOp = "new" /\ bulkOut = <<>>

\* No upstream body is read.
NoStream ==
  /\ upstream = <<>> /\ nRead = 0 /\ readerDone = FALSE
  /\ sseBuffer = <<>> /\ upstreamClosed = FALSE /\ pc = "none"
  /\ deltaText = <<>> /\ fed = <<>> /\ nThrown = 0 /\ lost = <<>>
  /\ nAcquire = 0 /\ nUpstream = 0 /\ upstreamOk = FALSE /\ nInit = 0
  /\ nHandle = 0 /\ nClose = 0 /\ nError = 0

\* ------------------------------------------- Spec: the parser, used in order
\* The caller of parser_test.ts and of handleMessages: feed every character,
\* finish once, then drain.

Init ==
  /\ \E t \in TriggerSignals, th \in BOOLEAN : parser = NewParser(t, th)
  /\ input \in Inputs
  /\ pos = 0
  /\ nFinish = 0
  /\ returned = <<>>
  /\ out = <<>>
  /\ lastOp = "new"
  /\ NoBulk
  /\ NoStream

DoFeedChar ==
  /\ pos < Len(input)
  /\ parser' = feedChar(parser, <<input[pos + 1]>>)
  /\ pos' = pos + 1
  /\ lastOp' = "feedChar"
  /\ UNCHANGED <<input, nFinish, returned, out, bulkVars, streamVars>>

DoFinish ==
  /\ parser' = finish(parser)
  /\ nFinish' = nFinish + 1
  /\ lastOp' = "finish"
  /\ UNCHANGED <<input, pos, returned, out, bulkVars, streamVars>>

DoConsumeEvents ==
  /\ parser' = consumeEvents(parser).parser
  /\ returned' = consumeEvents(parser).pending
  /\ out' = out \o consumeEvents(parser).pending
  /\ lastOp' = "consumeEvents"
  /\ UNCHANGED <<input, pos, nFinish, bulkVars, streamVars>>

FeedChar == nFinish = 0 /\ DoFeedChar

Finish == nFinish = 0 /\ pos = Len(input) /\ DoFinish

ConsumeEvents == nFinish = 1 /\ DoConsumeEvents

Next == FeedChar \/ Finish \/ ConsumeEvents

Spec == Init /\ [][Next]_vars

\* ------------------------------- SpecFree: the parser, called in any order
\* Any client of the exported class: feedChar, finish and consumeEvents in
\* any order, finish at most MaxFinish times.

MaxFinish == 2

FreeInputs ==
  {<<"a", "a">>,
   THINKING_START_TAG \o <<"a">>,
   Hi \o TRIGGER \o <<"a">>,
   TRIGGER \o InvokeOpen}

InitFree ==
  /\ \E t \in TriggerSignals, th \in BOOLEAN : parser = NewParser(t, th)
  /\ input \in FreeInputs
  /\ pos = 0
  /\ nFinish = 0
  /\ returned = <<>>
  /\ out = <<>>
  /\ lastOp = "new"
  /\ NoBulk
  /\ NoStream

FreeFeedChar == DoFeedChar

FreeFinish == nFinish < MaxFinish /\ DoFinish

FreeConsumeEvents == DoConsumeEvents

NextFree == FreeFeedChar \/ FreeFinish \/ FreeConsumeEvents

SpecFree == InitFree /\ [][NextFree]_vars

\* ------------------------- SpecBulk: one character at a time and in bulk
\* Two parsers of the same configuration: one is fed the input character by
\* character, finished and drained; then the other is fed the whole input in
\* a single feedChar call, finished and drained.

InitBulk ==
  /\ \E t \in TriggerSignals, th \in BOOLEAN :
        parser = NewParser(t, th) /\ bulk = NewParser(t, th)
  /\ input \in Inputs
  /\ pos = 0
  /\ nFinish = 0
  /\ returned = <<>>
  /\ out = <<>>
  /\ lastOp = "new"
  /\ bulkOp = "new"
  /\ bulkOut = <<>>
  /\ NoStream

CharFeed == nFinish = 0 /\ DoFeedChar

CharFinish == nFinish = 0 /\ pos = Len(input) /\ DoFinish

CharDrain == lastOp = "finish" /\ DoConsumeEvents

BulkFeed ==
  /\ lastOp = "consumeEvents" /\ bulkOp = "new"
  /\ bulk' = feedChar(bulk, input)
  /\ bulkOp' = "feedChar"
  /\ UNCHANGED <<callerVars, bulkOut, streamVars>>

BulkFinish ==
  /\ bulkOp = "feedChar"
  /\ bulk' = finish(bulk)
  /\ bulkOp' = "finish"
  /\ UNCHANGED <<callerVars, bulkOut, streamVars>>

BulkDrain ==
  /\ bulkOp = "finish"
  /\ bulk' = consumeEvents(bulk).parser
  /\ bulkOut' = consumeEvents(bulk).pending
  /\ bulkOp' = "consumeEvents"
  /\ UNCHANGED <<callerVars, streamVars>>

NextBulk == CharFeed \/ CharFinish \/ CharDrain \/ BulkFeed \/ BulkFinish \/ BulkDrain

SpecBulk == InitBulk /\ [][NextBulk]_vars

\* --------------------------------------------- SpecStream: the frame reader
\* The start() callback of handleMessages' ReadableStream (main.ts 113-195),
\* from the first reader.read() on. The upstream body is ASCII text, so the
\* TextDecoder hands on the characters it is given. Logging is taken to
\* succeed; handleEvents and reader.read() may throw.

FrameSep == <<"\n", "\n">>

DataPrefix == <<"d","a","t","a",":">>

DONE == <<"[","D","O","N","E","]">>

ContentOpen ==
  <<"{","\"","c","h","o","i","c","e","s","\"",":","[","{","\"","d","e","l","t","a","\"",":",
    "{","\"","c","o","n","t","e","n","t","\"",":","\"">>

ContentClose == <<"\"","}","}","]","}">>

RECURSIVE SplitLines(_)
\* rawEvent.split("\n")
SplitLines(s) ==
  LET i == IndexOf(s, <<"\n">>, 0)
  IN IF i = -1 THEN <<s>> ELSE <<Slice(s, 0, i)>> \o SplitLines(Slice(s, i + 1, Len(s)))

\* line.slice(5).trim() of a trimmed line that starts with data:
DataOf(line) == Trim(Slice(line, 5, Len(line)))

RECURSIVE DataLines(_)
\* .map(trim).filter(startsWith("data:")).map(slice(5).trim()) over the lines
DataLines(lines) ==
  IF lines = <<>> THEN <<>>
  ELSE (IF StartsWith(Trim(Head(lines)), DataPrefix)
        THEN <<DataOf(Trim(Head(lines)))>> ELSE <<>>) \o DataLines(Tail(lines))

RECURSIVE JoinLines(_)
\* dataLines.join("\n")
JoinLines(lines) ==
  IF lines = <<>> THEN <<>>
  ELSE IF Len(lines) = 1 THEN Head(lines)
  ELSE Head(lines) \o <<"\n">> \o JoinLines(Tail(lines))

\* A character that stands for itself inside a JSON string.
IsPlainChar(c) == c \notin {"\"", "\\", "\n", "\t", "\r"}

\* JSON.parse(payload), json?.choices?.[0]?.delta and extractDeltaText(delta)
\* on the payloads of Upstreams: an object with a string delta content gives
\* the content, {} and the scalars give "", anything else is a SyntaxError
\* (ok = FALSE).
DeltaOf(payload) ==
  LET n == Len(payload)
      a == Len(ContentOpen)
      z == Len(ContentClose)
  IN IF /\ n >= a + z
        /\ StartsWith(payload, ContentOpen)
        /\ EndsWith(payload, ContentClose)
        /\ \A i \in (a + 1)..(n - z) : IsPlainChar(payload[i])
     THEN [ok |-> TRUE, text |-> Slice(payload, a, n - z)]
     ELSE IF payload = <<"{", "}">> \/ JsonParse(payload).ok THEN [ok |-> TRUE, text |-> <<>>]
     ELSE [ok |-> FALSE, text |-> <<>>]

\* What the loop body does with a payload (main.ts 149-178).
PayloadKind(payload, delta) ==
  IF payload = DONE THEN [kind |-> "done", text |-> <<>>]
  ELSE IF ~delta.ok THEN [kind |-> "unparsed", text |-> <<>>]
  ELSE [kind |-> "delta", text |-> delta.text]

\* Mutant: the payload is not compared with the sentinel.
Frame_NoSentinel(rawEvent) ==
  IF DataLines(SplitLines(rawEvent)) = <<>> THEN [kind |-> "ignored", text |-> <<>>]
  ELSE [kind |-> IF DeltaOf(JoinLines(DataLines(SplitLines(rawEvent)))).ok
                 THEN "delta" ELSE "unparsed",
        text |-> DeltaOf(JoinLines(DataLines(SplitLines(rawEvent)))).text]

\* Mutant: a payload JSON.parse rejects ends the stream like the sentinel.
Frame_UnparsedEnds(rawEvent) ==
  IF DataLines(SplitLines(rawEvent)) = <<>> THEN [kind |-> "ignored", text |-> <<>>]
  ELSE IF JoinLines(DataLines(SplitLines(rawEvent))) = DONE
          \/ ~DeltaOf(JoinLines(DataLines(SplitLines(rawEvent)))).ok
  THEN [kind |-> "done", text |-> <<>>]
  ELSE [kind |-> "delta", text |-> DeltaOf(JoinLines(DataLines(SplitLines(rawEvent)))).text]

\* What the loop body does with one frame (main.ts 142-178): "ignored" (no
\* data line), "done" (the sentinel), "unparsed" (JSON.parse threw) or
\* "delta" with the text to feed.
Frame(rawEvent) ==
  IF DataLines(SplitLines(rawEvent)) = <<>> THEN [kind |-> "ignored", text |-> <<>>]
  ELSE PayloadKind(JoinLines(DataLines(SplitLines(rawEvent))),
                   DeltaOf(JoinLines(DataLines(SplitLines(rawEvent)))))

\* Largest number of frames of an upstream body.
MaxFrames == 3

\* Longest chunk that is not the whole rest of the body.
MaxChunk == 2

\* Largest number of handleEvents calls that throw.
MaxThrown == 1

DataField == <<"d","a","t","a",":"," ">>

DeltaFrame(content) == DataField \o ContentOpen \o content \o ContentClose

\* A delta of two characters, the sentinel, a comment, a payload that is not
\* JSON.
FrameTexts ==
  {DeltaFrame(<<"a", "b">>), DataField \o DONE, <<":"," ","p","i","n","g">>,
   DataField \o <<"{">>}

RECURSIVE FramesUpTo(_)
\* Up to n frames, each closed by the separator.
FramesUpTo(n) ==
  IF n = 0 THEN {<<>>}
  ELSE {<<>>} \cup {f \o FrameSep \o b : f \in FrameTexts, b \in FramesUpTo(n - 1)}

\* Bodies whose deltas make the parser queue events before the end: a
\* thinking block in one delta, a trigger signal followed by a second delta.
EventUpstreams ==
  {DeltaFrame(<<"a">> \o THINKING_START_TAG \o <<"b">> \o THINKING_END_TAG \o <<"c">>)
     \o FrameSep,
   DeltaFrame(<<"a">> \o TRIGGER) \o FrameSep \o DeltaFrame(<<"b">>) \o FrameSep
     \o DataField \o DONE \o FrameSep}

\* Bodies of complete frames, with or without an unclosed sentinel frame at
\* the end, and the bodies of EventUpstreams.
Upstreams ==
  {b \o tail : b \in FramesUpTo(MaxFrames), tail \in {<<>>, DataField \o DONE}}
    \cup EventUpstreams

InitStream ==
  /\ \E t \in TriggerSignals, th \in BOOLEAN : parser = NewParser(t, th)
  /\ upstream \in Upstreams
  /\ nRead = 0
  /\ readerDone = FALSE
  /\ sseBuffer = <<>>
  /\ upstreamClosed = FALSE
  /\ pc = "acquire"
  /\ deltaText = <<>>
  /\ fed = <<>>
  /\ nThrown = 0
  /\ lost = <<>>
  /\ nAcquire = 0
  /\ nUpstream = 0
  /\ upstreamOk = FALSE
  /\ nInit = 0
  /\ nHandle = 0
  /\ nClose = 0
  /\ nError = 0
  /\ nFinish = 0
  /\ returned = <<>>
  /\ out = <<>>
  /\ input = <<>>
  /\ pos = 0
  /\ lastOp = "new"
  /\ NoBulk

\* What the steps of handleMessages in front of the read loop leave alone.
HeadKeeps ==
  UNCHANGED <<callerVars, bulkVars, upstream, nRead, readerDone, sseBuffer, upstreamClosed,
              deltaText, fed, nThrown, lost, nHandle, exitVars>>

\* main.ts 93: await rateLimiter.acquire() returns.
Acquire ==
  /\ pc = "acquire"
  /\ nAcquire' = nAcquire + 1
  /\ pc' = "call"
  /\ UNCHANGED <<nUpstream, upstreamOk, nInit>>
  /\ HeadKeeps

\* main.ts 93, 205-208: acquire() rejects; the handler answers 500.
AcquireThrows ==
  /\ pc = "acquire"
  /\ pc' = "resp500"
  /\ UNCHANGED headVars
  /\ HeadKeeps

\* main.ts 94-98: callUpstream returns a response.
CallUpstream ==
  /\ pc = "call"
  /\ nUpstream' = nUpstream + 1
  /\ upstreamOk' \in BOOLEAN
  /\ pc' = "status"
  /\ UNCHANGED <<nAcquire, nInit>>
  /\ HeadKeeps

\* main.ts 94, 205-208: callUpstream rejects; the handler answers 500.
CallUpstreamThrows ==
  /\ pc = "call"
  /\ nUpstream' = nUpstream + 1
  /\ pc' = "resp500"
  /\ UNCHANGED <<nAcquire, upstreamOk, nInit>>
  /\ HeadKeeps

\* Mutant: the test of line 100 is dropped; the stream is started whatever
\* the status.
StatusNotOk_Streams ==
  /\ pc = "status"
  /\ ~upstreamOk
  /\ pc' = "init"
  /\ UNCHANGED headVars
  /\ HeadKeeps

\* main.ts 100-111: the upstream status is not a success; the handler
\* answers 502.
StatusNotOk ==
  /\ pc = "status"
  /\ ~upstreamOk
  /\ pc' = "resp502"
  /\ UNCHANGED headVars
  /\ HeadKeeps

\* main.ts 100, 113-116: the status is a success; the stream is built and
\* start() is entered.
StatusOk ==
  /\ pc = "status"
  /\ upstreamOk
  /\ pc' = "init"
  /\ UNCHANGED headVars
  /\ HeadKeeps

\* main.ts 118: await claudeStream.init() returns.
StartInit ==
  /\ pc = "init"
  /\ nInit' = nInit + 1
  /\ pc' = "reader"
  /\ UNCHANGED <<nAcquire, nUpstream, upstreamOk>>
  /\ HeadKeeps

\* main.ts 118: init() rejects outside the try statement of line 126; start()
\* rejects with it.
StartInitThrows ==
  /\ pc = "init"
  /\ nInit' = nInit + 1
  /\ pc' = "rejected"
  /\ UNCHANGED <<nAcquire, nUpstream, upstreamOk>>
  /\ HeadKeeps

\* main.ts 119-124: the parser, the decoder and the reader are made.
GetReader ==
  /\ pc = "reader"
  /\ pc' = "read"
  /\ UNCHANGED headVars
  /\ HeadKeeps

\* main.ts 122: upstreamRes.body is null or locked; getReader() throws outside
\* the try statement and start() rejects with it.
GetReaderThrows ==
  /\ pc = "reader"
  /\ pc' = "rejected"
  /\ UNCHANGED headVars
  /\ HeadKeeps

\* Lengths of the chunk reader.read() returns when rest characters remain.
ChunkLens(rest) == {n \in 1..rest : n <= MaxChunk \/ n = rest}

\* Mutant: the chunk replaces sseBuffer instead of being appended to it
\* (line 136 as sseBuffer = text).
ReadChunk_Replaces ==
  /\ pc = "read"
  /\ nRead < Len(upstream)
  /\ \E n \in ChunkLens(Len(upstream) - nRead) :
       /\ sseBuffer' = Slice(upstream, nRead, nRead + n)
       /\ nRead' = nRead + n
  /\ pc' = "frames"
  /\ UNCHANGED <<callerVars, bulkVars, upstream, readerDone, upstreamClosed, deltaText,
                 fed, nThrown, lost, headVars, nHandle, exitVars>>

\* main.ts 128-136: a chunk arrives and is appended to sseBuffer.
ReadChunk ==
  /\ pc = "read"
  /\ nRead < Len(upstream)
  /\ \E n \in ChunkLens(Len(upstream) - nRead) :
       /\ sseBuffer' = sseBuffer \o Slice(upstream, nRead, nRead + n)
       /\ nRead' = nRead + n
  /\ pc' = "frames"
  /\ UNCHANGED <<callerVars, bulkVars, upstream, readerDone, upstreamClosed, deltaText,
                 fed, nThrown, lost, headVars, nHandle, exitVars>>

\* main.ts 128-129: the body is exhausted, done is true.
ReadDone ==
  /\ pc = "read"
  /\ nRead = Len(upstream)
  /\ readerDone' = TRUE
  /\ pc' = "finish"
  /\ UNCHANGED <<callerVars, bulkVars, upstream, nRead, sseBuffer, upstreamClosed,
                 deltaText, fed, nThrown, lost, headVars, nHandle, exitVars>>

\* main.ts 128, 186-193: reader.read() rejects; controller.error, writer.close.
ReadThrows ==
  /\ pc = "read"
  /\ pc' = "error"
  /\ nError' = nError + 1
  /\ nClose' = nClose + 1
  /\ UNCHANGED <<callerVars, bulkVars, upstream, nRead, readerDone, sseBuffer,
                 upstreamClosed, deltaText, fed, nThrown, lost, headVars, nHandle>>

eventBoundary == IndexOf(sseBuffer, FrameSep, 0)

rawEvent == Slice(sseBuffer, 0, eventBoundary)

\* main.ts 138-139, 180: no separator in sseBuffer, back to reader.read().
NoFrame ==
  /\ pc = "frames"
  /\ eventBoundary = -1
  /\ pc' = "read"
  /\ UNCHANGED <<callerVars, bulkVars, upstream, nRead, readerDone, sseBuffer,
                 upstreamClosed, deltaText, fed, nThrown, lost, headVars, nHandle, exitVars>>

\* main.ts 140-147 and 153-178: a frame without data lines, or one whose
\* payload JSON.parse rejects, is dropped.
FrameSkipped ==
  /\ pc = "frames"
  /\ eventBoundary # -1
  /\ Frame(rawEvent).kind \in {"ignored", "unparsed"}
  /\ sseBuffer' = Slice(sseBuffer, eventBoundary + 2, Len(sseBuffer))
  /\ UNCHANGED <<callerVars, bulkVars, upstream, nRead, readerDone, upstreamClosed, pc,
                 deltaText, fed, nThrown, lost, headVars, nHandle, exitVars>>

\* main.ts 149-152, 180: the sentinel ends both loops.
FrameDone ==
  /\ pc = "frames"
  /\ eventBoundary # -1
  /\ Frame(rawEvent).kind = "done"
  /\ sseBuffer' = Slice(sseBuffer, eventBoundary + 2, Len(sseBuffer))
  /\ upstreamClosed' = TRUE
  /\ pc' = "finish"
  /\ UNCHANGED <<callerVars, bulkVars, upstream, nRead, readerDone, deltaText, fed,
                 nThrown, lost, headVars, nHandle, exitVars>>

\* main.ts 154-167: the delta text of the frame is about to be fed.
FrameDelta ==
  /\ pc = "frames"
  /\ eventBoundary # -1
  /\ Frame(rawEvent).kind = "delta"
  /\ sseBuffer' = Slice(sseBuffer, eventBoundary + 2, Len(sseBuffer))
  /\ deltaText' = Frame(rawEvent).text
  /\ pc' = IF Frame(rawEvent).text = <<>> THEN "frames" ELSE "feed"
  /\ UNCHANGED <<callerVars, bulkVars, upstream, nRead, readerDone, upstreamClosed, fed,
                 nThrown, lost, headVars, nHandle, exitVars>>

\* await claudeStream.handleEvents(batch) returns.
HandleEventsReturns(batch) ==
  /\ out' = out \o batch
  /\ returned' = batch
  /\ nHandle' = nHandle + 1
  /\ UNCHANGED <<nThrown, lost>>

\* await claudeStream.handleEvents(batch) throws.
HandleEventsThrows(batch) ==
  /\ nThrown < MaxThrown
  /\ out' = out \o batch
  /\ returned' = batch
  /\ nHandle' = nHandle + 1
  /\ nThrown' = nThrown + 1
  /\ lost' = lost \o batch

\* Mutant: the queue is not drained after the character (line 170 missing);
\* the events wait for the drain after finish().
FeedAndDrain_NoDrain(p, char) == [parser |-> feedChar(p, char), pending |-> <<>>]

\* parser.feedChar(char) followed by parser.consumeEvents()
FeedAndDrain(p, char) == consumeEvents(feedChar(p, char))

\* main.ts 168-171: one round of the for loop.
FeedOne ==
  /\ pc = "feed"
  /\ parser' = FeedAndDrain(parser, <<Head(deltaText)>>).parser
  /\ fed' = Append(fed, Head(deltaText))
  /\ HandleEventsReturns(FeedAndDrain(parser, <<Head(deltaText)>>).pending)
  /\ deltaText' = Tail(deltaText)
  /\ pc' = IF Tail(deltaText) = <<>> THEN "frames" ELSE "feed"
  /\ UNCHANGED <<input, pos, nFinish, lastOp, bulkVars, upstream, nRead, readerDone,
                 sseBuffer, upstreamClosed, headVars, exitVars>>

\* main.ts 168-178: handleEvents throws inside the for loop; the catch of the
\* frame logs it and the frame loop goes on with the next frame.
FeedOneThrows ==
  /\ pc = "feed"
  /\ parser' = FeedAndDrain(parser, <<Head(deltaText)>>).parser
  /\ fed' = Append(fed, Head(deltaText))
  /\ HandleEventsThrows(FeedAndDrain(parser, <<Head(deltaText)>>).pending)
  /\ deltaText' = <<>>
  /\ pc' = "frames"
  /\ UNCHANGED <<input, pos, nFinish, lastOp, bulkVars, upstream, nRead, readerDone,
                 sseBuffer, upstreamClosed, headVars, exitVars>>

\* parser.finish() followed by parser.consumeEvents()
FinishAndDrain(p) == consumeEvents(finish(p))

\* main.ts 182-185, 191-193: finish, forward the last batch, close the writer.
FinishStream ==
  /\ pc = "finish"
  /\ parser' = FinishAndDrain(parser).parser
  /\ nFinish' = nFinish + 1
  /\ HandleEventsReturns(FinishAndDrain(parser).pending)
  /\ pc' = "closed"
  /\ nClose' = nClose + 1
  /\ UNCHANGED <<input, pos, lastOp, bulkVars, upstream, nRead, readerDone, sseBuffer,
                 upstreamClosed, deltaText, fed, headVars, nError>>

\* main.ts 182-183, 186-193: the last handleEvents throws; controller.error,
\* writer.close.
FinishStreamThrows ==
  /\ pc = "finish"
  /\ parser' = FinishAndDrain(parser).parser
  /\ nFinish' = nFinish + 1
  /\ HandleEventsThrows(FinishAndDrain(parser).pending)
  /\ pc' = "error"
  /\ nError' = nError + 1
  /\ nClose' = nClose + 1
  /\ UNCHANGED <<input, pos, lastOp, bulkVars, upstream, nRead, readerDone, sseBuffer,
                 upstreamClosed, deltaText, fed, headVars>>

NextStream ==
  \/ Acquire \/ AcquireThrows \/ CallUpstream \/ CallUpstreamThrows
  \/ StatusNotOk \/ StatusOk
  \/ StartInit \/ StartInitThrows \/ GetReader \/ GetReaderThrows
  \/ ReadChunk \/ ReadDone \/ ReadThrows
  \/ NoFrame \/ FrameSkipped \/ FrameDone \/ FrameDelta
  \/ FeedOne \/ FeedOneThrows
  \/ FinishStream \/ FinishStreamThrows

SpecStream == InitStream /\ [][NextStream]_vars

\* The code between the end of the read loop and the last handleEvents has no
\* suspension point: once the loop is left, line 182 runs.
SpecStreamFair == SpecStream /\ WF_vars(FinishStream \/ FinishStreamThrows)

\* ----------------------------------------------------------------- notions

\* Every event queued so far, drained or not, in the order it was queued.
AllEvents == out \o parser.events

RECURSIVE TextConcat(_)
\* The contents of the text events, concatenated in order.
TextConcat(evs) ==
  IF evs = <<>> THEN <<>>
  ELSE (IF Head(evs).type = "text" THEN Head(evs).content ELSE <<>>) \o TextConcat(Tail(evs))

OfType(evs, t) == {i \in 1..Len(evs) : evs[i].type = t}

EndsWithEnd(evs) == Len(evs) >= 1 /\ evs[Len(evs)] = EndEvent

HasTag(s) == Includes(s, THINKING_START_TAG) \/ Includes(s, THINKING_END_TAG)

HasTrigger(s) == parser.triggerSignal # <<>> /\ Includes(s, parser.triggerSignal)

\* The whole input was fed and finish() was called once.
Finished == nFinish = 1 /\ pos = Len(input)

\* ------------------------------------------------------------------ claims

\* C1: for every configuration and every input holding neither the trigger
\* signal nor a thinking tag, feeding it character by character and calling
\* finish() once yields text events only, whose contents concatenate to the
\* input, followed by a single end event.
C1_PlainTextRoundTrip ==
  (Finished /\ ~HasTag(input) /\ ~HasTrigger(input))
    => /\ EndsWithEnd(AllEvents)
       /\ OfType(AllEvents, "end") = {Len(AllEvents)}
       /\ \A i \in 1..(Len(AllEvents) - 1) : AllEvents[i].type = "text"
       /\ TextConcat(AllEvents) = input

\* C1 witness: a long input was flushed at the threshold and its rest by finish().
C1_Witness ==
  /\ Finished /\ ~HasTag(input) /\ ~HasTrigger(input)
  /\ Len(input) > FlushLen
  /\ Cardinality(OfType(AllEvents, "text")) >= 2

\* The value the extractor is to give for each parameter body of Bodies.
ExpectedArg(body) ==
  CASE body = Quoted1 -> [t |-> "string", v |-> <<"1">>]
    [] body = <<"1">> -> [t |-> "number", v |-> 1]
    [] body = <<" ", "a", " ">> -> [t |-> "string", v |-> <<"a">>]
    [] body = <<>> -> [t |-> "string", v |-> <<>>]

WhiteSpaces == {<<>>, <<"\n">>}

\* input is P, the trigger signal, white space, one block with the given
\* parameter body, white space.
IsOneBlockInput(P, body) ==
  \E W1 \in WhiteSpaces, W2 \in WhiteSpaces :
     input = P \o TRIGGER \o W1 \o Block(body) \o W2

\* The events are a text holding P (if P is not empty), later one
\* tool_call of f with argument x = arg, and end last; the rest is text.
TextThenCallThenEnd(evs, P, arg) ==
  /\ EndsWithEnd(evs)
  /\ \E j \in 1..Len(evs) :
        /\ OfType(evs, "tool_call") = {j}
        /\ evs[j].call = [name |-> <<"f">>, arguments |-> (<<"x">> :> arg)]
        /\ P # <<>> => \E i \in 1..(j - 1) : evs[i].type = "text" /\ Includes(evs[i].content, P)
  /\ \A i \in 1..(Len(evs) - 1) : evs[i].type \in {"text", "tool_call"}

\* C2 (as stated): with trigger signal T, input P + T + white space + one
\* invoke block + white space gives a text event holding P, a tool_call with
\* the block's name and arguments, then end; for the body "1" (in quotes)
\* the argument x is the number 1.
C2_NumericArgument ==
  (Finished /\ parser.triggerSignal = TRIGGER /\ IsOneBlockInput(Hi, Quoted1))
    => TextThenCallThenEnd(AllEvents, Hi, [t |-> "number", v |-> 1])

\* C2 (amended): the same events, the arguments being the JSON value of each
\* trimmed parameter body: for the body "1" in quotes, x is the string 1.
C2_ToolCallExtracted ==
  \A P \in {<<>>, Hi}, body \in Bodies :
    (Finished /\ parser.triggerSignal = TRIGGER /\ IsOneBlockInput(P, body))
      => TextThenCallThenEnd(AllEvents, P, ExpectedArg(body))

\* C2 witness: the example of the specification, fed and finished.
C2_Witness ==
  /\ Finished /\ parser.triggerSignal = TRIGGER
  /\ input = Hi \o TRIGGER \o <<"\n">> \o Block(Quoted1) \o <<"\n">>
  /\ OfType(AllEvents, "tool_call") # {}

\* The parts of an input A <thinking> B </thinking> C.
TagStart == IndexOf(input, THINKING_START_TAG, 0)

TagEnd == IndexOf(input, THINKING_END_TAG, TagStart + Len(THINKING_START_TAG))

PartA == Slice(input, 0, TagStart)

PartB == Slice(input, TagStart + Len(THINKING_START_TAG), TagEnd)

PartC == Slice(input, TagEnd + Len(THINKING_END_TAG), Len(input))

IsThinkingInput ==
  /\ TagStart # -1 /\ TagEnd # -1
  /\ ~HasTag(PartA) /\ ~HasTag(PartB) /\ ~HasTag(PartC)
  /\ Trim(PartB) # <<>>

\* C3: without trigger signal and with thinking enabled, the input
\* A <thinking> B </thinking> C (no tag in A, B, C, B not blank) gives exactly
\* one thinking event, whose content holds B, has no leading '>' and no tag;
\* the text before it holds A and the text after it holds C.
C3_ThinkingBlock ==
  (Finished /\ parser.triggerSignal = <<>> /\ parser.thinkingEnabled /\ IsThinkingInput)
    => \E k \in 1..Len(AllEvents) :
         /\ OfType(AllEvents, "thinking") = {k}
         /\ Includes(AllEvents[k].content, PartB)
         /\ ~StartsWith(PartB, <<">">>) => ~StartsWith(AllEvents[k].content, <<">">>)
         /\ ~HasTag(AllEvents[k].content)
         /\ Includes(TextConcat(SubSeq(AllEvents, 1, k - 1)), PartA)
         /\ Includes(TextConcat(SubSeq(AllEvents, k + 1, Len(AllEvents))), PartC)

\* Every <thinking> ... </thinking> span of the input is part of the text.
MarkupVerbatim ==
  \A i \in 0..(Len(input) - 1) :
    (HasAt(input, THINKING_START_TAG, i) /\ IndexOf(input, THINKING_END_TAG, i) # -1)
      => Includes(TextConcat(AllEvents),
                  Slice(input, i, IndexOf(input, THINKING_END_TAG, i) + Len(THINKING_END_TAG)))

NeverThinks == ~parser.thinkingMode /\ OfType(AllEvents, "thinking") = {}

\* C4 (as stated): with thinking disabled, no thinking event is queued, the
\* parser never enters thinking mode, and every <thinking>...</thinking>
\* markup of the input is found verbatim in the emitted text.
C4_MarkupAlwaysVerbatim ==
  ~parser.thinkingEnabled => (NeverThinks /\ (Finished => MarkupVerbatim))

\* C4 (amended): with thinking disabled, no thinking event is queued and the
\* parser never enters thinking mode; when the input holds no trigger signal
\* (none is configured, or it does not occur) the emitted text is the input,
\* so the markup is found verbatim in it.
C4_ThinkingDisabled ==
  ~parser.thinkingEnabled
    => /\ NeverThinks
       /\ (Finished /\ ~HasTrigger(input)) => (TextConcat(AllEvents) = input /\ MarkupVerbatim)

\* C4 witness: a thinking block went through a parser with thinking disabled.
C4_Witness ==
  /\ ~parser.thinkingEnabled /\ Finished /\ ~HasTrigger(input)
  /\ IsThinkingInput
  /\ Includes(TextConcat(AllEvents), THINKING_START_TAG \o PartB \o THINKING_END_TAG)

\* The events a step appended to the queue.
Appended == SubSeq(parser'.events, Len(parser.events) + 1, Len(parser'.events))

\* The capture buffer holds an open marker and no close marker after it.
IncompleteCapture ==
  LET startIdx == IndexOf(ToLowerCase(parser.captureBuffer), InvokeOpen, 0)
  IN /\ parser.capturing
     /\ startIdx # -1
     /\ IndexOf(parser.captureBuffer, InvokeClose, startIdx) = -1

\* C7: finish() called while the capture buffer holds an open marker and no
\* close marker emits the raw capture buffer as a text event and no tool_call.
C7_IncompleteCaptureEmitted ==
  [][(nFinish' = nFinish + 1 /\ IncompleteCapture)
       => /\ \E i \in 1..Len(Appended) : Appended[i] = TextEvent(parser.captureBuffer)
          /\ OfType(Appended, "tool_call") = {}]_vars

\* input is P, the trigger signal, white space, two complete blocks, a rest.
IsTwoBlockInput(rest) ==
  \E P \in {<<>>, Hi}, W \in WhiteSpaces, body \in Bodies :
     input = P \o TRIGGER \o W \o Block(body) \o Block(<<"1">>) \o rest

\* C8: two consecutive complete invoke blocks after a trigger signal give
\* exactly one tool_call; the second block's markup is in no tool_call and in
\* no text event; content after the last block is emitted as text.
C8_SecondBlockDiscarded ==
  \A rest \in {<<>>, <<"a">>} :
    (Finished /\ parser.triggerSignal = TRIGGER /\ IsTwoBlockInput(rest))
      => /\ Cardinality(OfType(AllEvents, "tool_call")) = 1
         /\ ~Includes(ToLowerCase(TextConcat(AllEvents)), InvokeOpen)
         /\ EndsWith(TextConcat(AllEvents), rest)

EndQueued == OfType(AllEvents, "end") # {}

\* Plain mode with empty buffers: the state of a new parser.
Idle(p) ==
  /\ p.buffer = <<>> /\ p.captureBuffer = <<>> /\ p.thinkingBuffer = <<>>
  /\ ~p.capturing /\ ~p.thinkingMode

C10_DestructiveDrain ==
  [][(lastOp' = "consumeEvents")
       => /\ returned' = parser.events
          /\ parser'.events = <<>>
          /\ parser' = [parser EXCEPT !.events = <<>>]
          /\ lastOp = "consumeEvents" => returned' = <<>>]_vars

\* C10 witness: a drain in mid-stream returned two events and left the
\* plain buffer as it was.
C10_Witness ==
  /\ lastOp = "consumeEvents"
  /\ Len(returned) >= 2
  /\ parser.events = <<>>
  /\ parser.buffer # <<>>

\* Both parsers of SpecBulk are finished and drained.
BothDrained == lastOp = "consumeEvents" /\ bulkOp = "consumeEvents"

\* C9 (as stated): for every character sequence and configuration, feeding
\* one character per feedChar call and feeding the whole sequence in a single
\* feedChar call give, after finish() and a full drain, the same events.
C9_BulkEqualsCharwise == BothDrained => bulkOut = out

\* The inputs for which one bulk call is equivalent: no trigger signal and no
\* thinking tag in it, and no flush on the way (a trigger signal is
\* configured, or the input is shorter than the flush threshold).
BulkSafe ==
  /\ ~HasTag(input) /\ ~HasTrigger(input)
  /\ parser.triggerSignal # <<>> \/ Len(input) < FlushLen

\* C9 (amended): the two ways of feeding give the same drained events for
\* every sequence that holds neither the trigger signal nor a thinking tag
\* and that is shorter than 256 characters or is fed to a parser with a
\* trigger signal (whose plain buffer is never flushed by length).
C9_BulkEqualsCharwiseOnPlainText == (BothDrained /\ BulkSafe) => bulkOut = out

\* C9 witness: a plain input of several characters went through both parsers.
C9_Witness ==
  /\ BothDrained /\ BulkSafe
  /\ Len(input) >= 2
  /\ bulkOut = <<TextEvent(input), EndEvent>>


IsPrefix(s, t) == Len(s) <= Len(t) /\ s = SubSeq(t, 1, Len(s))

RECURSIVE DeltaBeforeDone(_)
\* The delta texts of the complete frames of body s that precede its first
\* frame with the payload [DONE], in order.
DeltaBeforeDone(s) ==
  LET b == IndexOf(s, FrameSep, 0)
      dataLines == DataLines(SplitLines(Slice(s, 0, b)))
      rest == Slice(s, b + 2, Len(s))
  IN IF b = -1 THEN <<>>
     ELSE IF dataLines = <<>> THEN DeltaBeforeDone(rest)
     ELSE IF JoinLines(dataLines) = DONE THEN <<>>
     ELSE DeltaOf(JoinLines(dataLines)).text \o DeltaBeforeDone(rest)

\* The upstream ended normally or the sentinel was seen.
StreamEnded == readerDone \/ upstreamClosed

C5_State ==
  /\ nFinish <= 1
  /\ nFinish = 0 => OfType(out, "end") = {}
  /\ nFinish = 1 =>
       /\ StreamEnded
       /\ EndsWithEnd(returned)
       /\ Len(returned) <= Len(out)
       /\ returned = SubSeq(out, Len(out) - Len(returned) + 1, Len(out))
       /\ OfType(out, "end") = {Len(out)}
  /\ (StreamEnded /\ pc \in {"closed", "error"}) => nFinish = 1
  /\ nThrown = 0 => IsPrefix(fed, DeltaBeforeDone(upstream))
  /\ (nThrown = 0 /\ nFinish = 1) => fed = DeltaBeforeDone(upstream)

\* C5: when the upstream ends normally or [DONE] is seen, no character of a
\* frame after the [DONE] frame is fed to the parser, parser.finish() is
\* called, and called once, and the batch forwarded last ends with an end
\* event, the only end event forwarded and the last event forwarded.
C5_StreamEnd ==
  /\ []C5_State
  /\ [][(upstreamClosed => fed' = fed) /\ (nFinish = 1 => out' = out)]_vars
  /\ (StreamEnded ~> nFinish = 1)

\* The sentinel was seen with a delta frame behind it in the same chunk; what
\* was fed came from the frames in front of it, and the writer is closed.
C5_Witness ==
  /\ pc = "closed"
  /\ upstreamClosed
  /\ fed = <<"a", "b">>
  /\ Includes(sseBuffer, ContentOpen)
  /\ returned = <<TextEvent(<<"a", "b">>), EndEvent>>

\* The parser is in Capturing, in Thinking, or (neither) in Plain.
ModeExclusive(p) ==
  /\ ~(p.capturing /\ p.thinkingMode)
  /\ (p.capturing \/ p.thinkingMode) => p.buffer = <<>>
  /\ ~p.capturing => p.captureBuffer = <<>>
  /\ ~p.thinkingMode => p.thinkingBuffer = <<>>

\* C11: after every feedChar and finish call capturing and thinkingMode are
\* not both true, buffer is empty whenever one of them holds, captureBuffer
\* is empty whenever capturing is false and thinkingBuffer is empty whenever
\* thinkingMode is false.
C11_OneModeOneBuffer == ModeExclusive(parser)

\* C11 witness: a thinking block was closed and emitted, and the parser is now
\* capturing the characters behind a trigger signal.
C11_Witness ==
  /\ parser.capturing
  /\ parser.captureBuffer # <<>>
  /\ OfType(AllEvents, "thinking") # {}
  /\ ModeExclusive(parser)

\* start() was entered and has returned or thrown.
StartLeft == pc \in {"closed", "error", "rejected"}

\* C12: once the response stream has been started the writer is closed
\* exactly once on every exit path (normal end, [DONE], failed read, failed
\* last handleEvents, failed init() or getReader()), and a failed read also
\* signals the stream as errored.
C12_WriterClosedOnce ==
  /\ nClose <= 1
  /\ StartLeft => nClose = 1
  /\ (pc = "error" /\ nFinish = 0) => nError = 1

\* The frame loop stands in front of a complete frame whose payload is not
\* the sentinel and is rejected by JSON.parse.
AtUnparsedFrame ==
  /\ pc = "frames"
  /\ eventBoundary # -1
  /\ DataLines(SplitLines(rawEvent)) # <<>>
  /\ JoinLines(DataLines(SplitLines(rawEvent))) # DONE
  /\ ~DeltaOf(JoinLines(DataLines(SplitLines(rawEvent)))).ok

\* C13: a frame whose payload fails to parse is skipped and does not abort
\* the stream: the step over it feeds nothing, signals no error and goes on
\* with the frame loop; with no failing handleEvents, what has been fed when
\* finish() is called is the delta text of every complete frame in front of
\* the sentinel, in order, and the last batch ends with an end event.
C13_UnparsedFrameSkipped ==
  /\ [][AtUnparsedFrame =>
          /\ pc' = "frames"
          /\ sseBuffer' = Slice(sseBuffer, eventBoundary + 2, Len(sseBuffer))
          /\ fed' = fed /\ parser' = parser /\ out' = out
          /\ nError' = nError /\ nClose' = nClose]_vars
  /\ []((nFinish = 1 /\ nThrown = 0) => fed = DeltaBeforeDone(upstream))
  /\ [](nFinish = 1 => EndsWithEnd(returned))

\* C13 witness: the body began with an unparsable frame followed by a delta
\* frame; the delta was fed and the stream was finished and closed.
C13_Witness ==
  /\ StartsWith(upstream, DataField \o <<"{">> \o FrameSep \o DeltaFrame(<<"a", "b">>))
  /\ pc = "closed"
  /\ nError = 0
  /\ fed = <<"a", "b">>
  /\ returned = <<TextEvent(<<"a", "b">>), EndEvent>>

RECURSIVE FeedAll(_, _)
\* Parser p after feedChar for every character of s, never drained.
FeedAll(p, s) ==
  IF s = <<>> THEN p ELSE FeedAll(feedChar(p, <<Head(s)>>), Tail(s))

\* What the parser of this request queues for the characters fed so far (and
\* finish(), once called) when nothing is drained in between.
Unbatched ==
  LET p == FeedAll(NewParser(parser.triggerSignal, parser.thinkingEnabled), fed)
  IN IF nFinish = 0 THEN p.events ELSE finish(p).events

\* C14: the batches passed to handleEvents, concatenated, are the events in
\* the order the parser queued them, equal to what a single drain after
\* finish() returns; and forwarding is per character: each character fed is
\* followed by a drain and a handleEvents call with what it queued before the
\* next is fed, so the queue is empty between steps.
C14_PerCharacterInOrder ==
  /\ [](pc # "none" => (out = Unbatched /\ parser.events = <<>>))
  /\ [](pc # "none" => nHandle = Len(fed) + nFinish)
  /\ [][fed' # fed =>
          /\ Len(fed') = Len(fed) + 1
          /\ returned' = feedChar(parser, <<fed'[Len(fed')]>>).events
          /\ out' = out \o returned'
          /\ nHandle' = nHandle + 1]_vars

\* C14 witness: a delta with a thinking block was forwarded in four batches
\* that held an event (text, thinking, and text and end at the finish).
C14_Witness ==
  /\ pc = "closed"
  /\ nThrown = 0
  /\ out = <<TextEvent(<<"a">>), ThinkingEvent(<<"b">>), TextEvent(<<"c">>), EndEvent>>
  /\ returned = <<TextEvent(<<"c">>), EndEvent>>
  /\ nHandle = Len(fed) + 1

ToolsAndThinking == parser.triggerSignal # <<>> /\ parser.thinkingEnabled

\* C16: with a trigger signal and thinking enabled, no thinking event ever
\* queued (one flushed by finish() right after the end tag included) holds
\* the end tag, and the parser is not in Thinking any more once the end tag
\* has been fed.
C16_EndTagStripped ==
  ToolsAndThinking =>
    /\ \A i \in OfType(AllEvents, "thinking") :
         ~Includes(AllEvents[i].content, THINKING_END_TAG)
    /\ parser.thinkingMode => ~EndsWith(parser.thinkingBuffer, THINKING_END_TAG)

\* C17: wherever thinking is parsed, the first character the thinking buffer
\* holds is the '>' of the start tag, and for A <thinking> B </thinking> C
\* (short A, non-empty C) the thinking event's content is B up to leading
\* white space; a B that begins with '>' keeps it.
C17_FirstCapturedIsDelimiter ==
  parser.thinkingEnabled =>
    /\ (parser.thinkingMode /\ parser.thinkingBuffer # <<>>)
         => Head(parser.thinkingBuffer) = ">"
    /\ (Finished /\ IsThinkingInput /\ PartC # <<>> /\ Len(PartA) <= MaxSmall)
         => \E k \in 1..Len(AllEvents) :
              /\ OfType(AllEvents, "thinking") = {k}
              /\ TrimStart(AllEvents[k].content) = TrimStart(PartB)

\* The start tag has just been fed in Plain: the characters fed end with
\* the first start tag of the input.
StartTagJustFed ==
  /\ nFinish = 0
  /\ TagStart # -1
  /\ pos = TagStart + Len(THINKING_START_TAG)

\* C18: without trigger signal and with thinking enabled, a start tag fed in
\* Plain always switches the parser to Thinking, the text in front of the tag
\* having been emitted as text, however many plain characters precede it.
C18_StartTagNeverMissed ==
  (parser.triggerSignal = <<>> /\ parser.thinkingEnabled /\ StartTagJustFed)
    => /\ parser.thinkingMode
       /\ parser.buffer = <<>>
       /\ TextConcat(AllEvents) = PartA
       /\ \A i \in 1..Len(AllEvents) : AllEvents[i].type = "text"

\* What has been fed is P, the trigger signal, W, one complete block and one
\* character that is neither white space nor the start of an open marker.
BlockThenContentFed(W, body) ==
  /\ nFinish = 0
  /\ \E P \in {<<>>, Hi} :
       Slice(input, 0, pos) = P \o TRIGGER \o W \o Block(body) \o <<"a">>

\* C19: a complete invoke block captured and followed, before any finish(),
\* by content that is not another open marker is a false match: the capture
\* buffer (W, the block, the content) is emitted verbatim as one text event,
\* no tool_call is emitted, and the parser is back in Plain.
C19_FalseMatchEmitted ==
  \A W \in {<<>>, <<"\n">>, <<"a">>}, body \in Bodies :
    (parser.triggerSignal = TRIGGER /\ BlockThenContentFed(W, body))
      => /\ OfType(AllEvents, "tool_call") = {}
         /\ \E i \in 1..Len(AllEvents) :
              AllEvents[i] = TextEvent(W \o Block(body) \o <<"a">>)
         /\ ~parser.capturing

\* What has been fed is P, the trigger signal, W and a complete block whose
\* open marker has no name attribute.
UnnamedBlockFed(P, W) ==
  /\ nFinish = 0
  /\ Slice(input, 0, pos) = P \o TRIGGER \o W \o BlockNoName

\* C20: when the extractor fails on a complete block, the text emitted for
\* the capture is the capture buffer (W and the block) exactly, once, no
\* tool_call is queued, and the parser is in Plain with an empty capture
\* buffer.
C20_FailedExtractionEmitsCapture ==
  \A P \in {<<>>, Hi}, W \in {<<>>, <<"\n">>, <<"a">>} :
    (parser.triggerSignal = TRIGGER /\ UnnamedBlockFed(P, W))
      => /\ ~parseInvokeXml(BlockNoName).ok
         /\ TextConcat(AllEvents) = P \o W \o BlockNoName
         /\ OfType(AllEvents, "tool_call") = {}
         /\ ~parser.capturing /\ parser.captureBuffer = <<>>

\* C21: no text event and no thinking event ever queued has empty content,
\* a thinking event flushed by finish() from an unterminated block included.
C21_NoEmptyContent ==
  \A i \in 1..Len(AllEvents) :
    AllEvents[i].type \in {"text", "thinking"} => AllEvents[i].content # <<>>

\* C22: with a trigger signal and thinking enabled, no call made while the
\* parser is Capturing sets thinkingMode (a start tag completed inside the
\* captured text included), and no call made while it is in Thinking starts
\* Capturing (a trigger signal completed inside the block included).
C22_ThinkingFromPlainOnly ==
  [][ToolsAndThinking =>
       /\ parser.capturing => ~parser'.thinkingMode
       /\ parser.thinkingMode => ~parser'.capturing]_vars

C22_Witness ==
  /\ ToolsAndThinking
  /\ parser.capturing /\ ~parser.thinkingMode
  /\ EndsWith(parser.captureBuffer, THINKING_START_TAG)
  /\ \E i \in OfType(AllEvents, "thinking") : AllEvents[i].content = TRIGGER

\* The part of the body that reader.read() has returned so far.
ReadSoFar == Slice(upstream, 0, nRead)

\* What is forwarded for body s by a parser of this request's configuration:
\* the events queued for the delta text in front of the sentinel and finish().
ForwardedFor(s) ==
  finish(FeedAll(NewParser(parser.triggerSignal, parser.thinkingEnabled),
                 DeltaBeforeDone(s))).events

\* C23: what is fed and what is forwarded depend on the text read, not on
\* the chunks it came in. Whenever the loop is about to read again, the
\* characters fed are the delta text of the complete frames of the text read
\* so far, sseBuffer is what follows the last separator, and the events
\* forwarded are those the parser queues for these characters; after a
\* normal end, what was fed and forwarded is a function of the body alone.
C23_ChunkingIndependent ==
  /\ []((pc = "read" /\ nThrown = 0) =>
          /\ fed = DeltaBeforeDone(ReadSoFar)
          /\ IndexOf(sseBuffer, FrameSep, 0) = -1
          /\ EndsWith(ReadSoFar, sseBuffer)
          /\ out = Unbatched)
  /\ []((pc = "closed" /\ nThrown = 0) =>
          /\ fed = DeltaBeforeDone(upstream)
          /\ out = ForwardedFor(upstream))

\* C23 witness: a chunk ended between the two line feeds of a separator, with
\* a frame fed before it and the frame in front of the cut still buffered.
C23_Witness ==
  /\ pc = "read"
  /\ nThrown = 0
  /\ fed = <<"a", "b">>
  /\ sseBuffer = DeltaFrame(<<"a", "b">>) \o <<"\n">>
  /\ nRead < Len(upstream) /\ upstream[nRead + 1] = "\n"

\* C24: a handleEvents call that fails while a frame's characters are being
\* forwarded ends the stream with an error; a stream that ends normally has
\* fed every character of the delta text in front of the sentinel, once and
\* in order, and has lost no batch.
C24_ForwardFailureEndsStream ==
  /\ [][nThrown' # nThrown => (pc' = "error" /\ nError' = nError + 1)]_vars
  /\ [](pc = "closed" => (fed = DeltaBeforeDone(upstream) /\ lost = <<>>))

====
